---- MODULE Spec2Model ----
(***************************************************************************)
(* Nonrigid coherent point drift transform (cpd::Nonrigid,                 *)
(* include/cpd/nonrigid.hpp).                                              *)
(*                                                                         *)
(* Numbers.  The program computes in IEEE doubles.  The model computes in  *)
(* exact rational arithmetic: a number is a pair <<n, d>> in lowest terms  *)
(* with d >= 0.  d > 0 is the finite value n/d; <<1, 0>> and <<-1, 0>> are *)
(* the infinities and <<0, 0>> is NaN, which is what a division by zero    *)
(* produces in the program.  Rounding error is not modelled.               *)
(*                                                                         *)
(* Matrices are sequences of rows, a row is a sequence of numbers; the     *)
(* empty sequence is the 0 x 0 matrix of a default-constructed Matrix.     *)
(***************************************************************************)
EXTENDS Integers, Sequences, FiniteSets

(***************************************************************************)
(* Scalars                                                                 *)
(***************************************************************************)
RECURSIVE Gcd(_, _)
Gcd(a, b) == IF b = 0 THEN a ELSE Gcd(b, a % b)

IAbs(n) == IF n < 0 THEN -n ELSE n

Sgn(n) == IF n > 0 THEN 1 ELSE IF n < 0 THEN -1 ELSE 0

\* n/d in lowest terms, d >= 0; a zero denominator keeps only the sign of n.
Norm(n, d) ==
    IF d = 0 THEN <<Sgn(n), 0>>
    ELSE LET g == Gcd(IAbs(n), IAbs(d))
             s == IF d < 0 THEN -1 ELSE 1
         IN  <<s * (n \div g), IAbs(d) \div g>>

Finite(x) == x[2] # 0

\* Sum, difference and product of finite numbers.
RAdd(x, y) ==
    LET g == Gcd(x[2], y[2])
    IN  Norm(x[1] * (y[2] \div g) + y[1] * (x[2] \div g), (x[2] \div g) * y[2])

RNeg(x) == <<-x[1], x[2]>>

RSub(x, y) == RAdd(x, RNeg(y))

RMul(x, y) ==
    LET g1 == Gcd(IAbs(x[1]), y[2])
        g2 == Gcd(IAbs(y[1]), x[2])
    IN  IF x[1] = 0 \/ y[1] = 0 THEN <<0, 1>>
        ELSE <<(x[1] \div g1) * (y[1] \div g2), (x[2] \div g2) * (y[2] \div g1)>>

\* x / y for finite x and y: y = 0 gives an infinity, or NaN when x = 0 too.
RDiv(x, y) ==
    IF y[1] = 0 THEN <<Sgn(x[1]), 0>>
    ELSE RMul(x, Norm(y[2], y[1]))

\* std::abs: |inf| = inf, |NaN| = NaN.
RAbs(x) == <<IAbs(x[1]), x[2]>>

RGeq0(x) == x[1] >= 0 /\ (x[2] # 0 \/ x[1] > 0)

RPos(x) == x[1] > 0

RECURSIVE RSum(_, _)
\* f[1] + ... + f[n]
RSum(f, n) == IF n = 0 THEN <<0, 1>> ELSE RAdd(RSum(f, n - 1), f[n])

(***************************************************************************)
(* Matrices                                                                *)
(***************************************************************************)
Rows(A) == Len(A)

Cols(A) == IF Len(A) = 0 THEN 0 ELSE Len(A[1])

\* A function on 1..n as the tuple of its values.
Tup(f) == f \o <<>>

\* The r x c matrix with entries E(i, j).
Mat(r, c, E(_, _)) == Tup([i \in 1..r |-> Tup([j \in 1..c |-> E(i, j)])])

Zero(r, c) == Mat(r, c, LAMBDA i, j : <<0, 1>>)

Identity(n) == Mat(n, n, LAMBDA i, j : IF i = j THEN <<1, 1>> ELSE <<0, 1>>)

Transpose(A) == Mat(Cols(A), Rows(A), LAMBDA i, j : A[j][i])

MAdd(A, B) == Mat(Rows(A), Cols(A), LAMBDA i, j : RAdd(A[i][j], B[i][j]))

MSub(A, B) == Mat(Rows(A), Cols(A), LAMBDA i, j : RSub(A[i][j], B[i][j]))

MScale(s, A) == Mat(Rows(A), Cols(A), LAMBDA i, j : RMul(s, A[i][j]))

MMul(A, B) ==
    Mat(Rows(A), Cols(B),
        LAMBDA i, j : RSum([k \in 1..Rows(B) |-> RMul(A[i][k], B[k][j])], Rows(B)))

\* v.asDiagonal() * A: row i of A scaled by v[i].
DiagMul(v, A) == Mat(Rows(A), Cols(A), LAMBDA i, j : RMul(v[i], A[i][j]))

Trace(A) == RSum([i \in 1..Rows(A) |-> A[i][i]], Rows(A))

\* A.array().pow(2) * v.replicate(1, cols).array(), summed over all entries.
WeightedSquareSum(A, v) ==
    RSum([i \in 1..Rows(A) |->
            RSum([j \in 1..Cols(A) |-> RMul(RMul(A[i][j], A[i][j]), v[i])], Cols(A))],
         Rows(A))

VSum(v) == RSum(v, Len(v))

\* A without row 1 and column j.
Minor(A, j) ==
    Mat(Rows(A) - 1, Rows(A) - 1, LAMBDA r, c : A[r + 1][IF c < j THEN c ELSE c + 1])

RECURSIVE Det(_)
\* Determinant, by expansion along the first row.
Det(A) ==
    IF Rows(A) = 0 THEN <<1, 1>>
    ELSE RSum([j \in 1..Rows(A) |->
                 LET t == RMul(A[1][j], Det(Minor(A, j)))
                 IN  IF j % 2 = 1 THEN t ELSE RNeg(t)],
              Rows(A))

\* A with column c replaced by column k of B.
ReplaceCol(A, c, B, k) ==
    Mat(Rows(A), Rows(A), LAMBDA i, j : IF j = c THEN B[i][k] ELSE A[i][j])

\* The X with A * X = B for a nonsingular square A (Cramer's rule).  Both the
\* pivoted and the unpivoted Householder QR solve return this X, up to rounding.
Solve(A, B) ==
    LET d == Det(A)
    IN  Mat(Rows(A), Cols(B), LAMBDA i, k : RDiv(Det(ReplaceCol(A, i, B, k)), d))

(***************************************************************************)
(* Bounds and input values                                                 *)
(***************************************************************************)
\* Number of moving points: rows of moving, of fixed, of p1, pt1 and px.
N == 2

\* Points are one-dimensional with coordinates 0 or 1.
CoordVals == {<<0, 1>>, <<1, 1>>}

\* Correspondence masses.
MassVals == {<<0, 1>>, <<1, 1>>}

\* Noise variances handed to compute_one.
Sigma2Vals == {<<1, 1>>, <<2, 1>>}

\* Seeds of the objective value l.
LVals == {<<0, 1>>, <<1, 1>>}

\* Point sets: the first point, and the position shared by all the others.
PointMatrices == {[i \in 1..N |-> <<IF i = 1 THEN a ELSE b>>] : a, b \in CoordVals}

\* Marginals: the mass of the first point, and the mass of each other point.
MassVectors == {[i \in 1..N |-> IF i = 1 THEN a ELSE b] : a, b \in MassVals}

\* Fixed point sets have their points at one position, with one common mass.
FixedMatrices == {[i \in 1..N |-> <<a>>] : a \in CoordVals}

FixedMassVectors == {[i \in 1..N |-> a] : a \in MassVals}

(***************************************************************************)
(* Program constants                                                       *)
(***************************************************************************)
DEFAULT_BETA == 3

DEFAULT_LAMBDA == 3

\* Arguments given to beta() and lambda().
BetaVals == {<<1, 1>>, <<DEFAULT_BETA, 1>>}

LambdaVals == {<<0, 1>>, <<DEFAULT_LAMBDA, 1>>}

(***************************************************************************)
(* cpd::affinity (declared in cpd/utils.hpp)                               *)
(***************************************************************************)
\* exp(-x) for x >= 0.  exp has no rational values away from 0; the model uses
\* 1 / (1 + x), which like exp(-x) is 1 at 0, strictly decreasing and positive,
\* and which as a kernel of the squared distance is positive definite too.
ExpNeg(x) == RDiv(<<1, 1>>, RAdd(<<1, 1>>, x))

SqDist(p, q) ==
    RSum([k \in 1..Len(p) |-> RMul(RSub(p[k], q[k]), RSub(p[k], q[k]))], Len(p))

\* G[i][j] = exp(-|x[i] - y[j]|^2 / (2 beta^2))
affinity(x, y, b) ==
    Mat(Rows(x), Rows(y),
        LAMBDA i, j : ExpNeg(RDiv(SqDist(x[i], y[j]), RMul(<<2, 1>>, RMul(b, b)))))

(***************************************************************************)
(* State                                                                   *)
(***************************************************************************)
VARIABLES
    m_g,            \* Nonrigid::m_g
    m_w,            \* Nonrigid::m_w
    m_lambda,       \* Nonrigid::m_lambda
    m_beta,         \* Nonrigid::m_beta
    m_linked,       \* Nonrigid::m_linked
    fixed,          \* the caller's fixed point matrix
    moving,         \* the caller's moving point matrix
    probabilities,  \* the caller's Probabilities: [p1, pt1, px, l]
    sigma2,         \* the caller's current noise variance
    called,         \* init, modify_probabilities or compute_one, whichever was called
                    \* last, or "none" once a setter or the caller's data came after it
    w,              \* compute_one's local w, while its result is at hand
    result          \* the NonrigidResult compute_one returned, while it is at hand

vars == <<m_g, m_w, m_lambda, m_beta, m_linked, fixed, moving, probabilities,
          sigma2, called, w, result>>

caller == <<fixed, moving, probabilities, sigma2>>

\* The transform object as one value.
Transform == [g |-> m_g, w |-> m_w, lambda |-> m_lambda, beta |-> m_beta,
              linked |-> m_linked]

\* No result is at hand.
NoResult == [points |-> <<>>, sigma2 |-> <<0, 0>>]

ProbabilitiesVals ==
    [p1 : MassVectors, pt1 : FixedMassVectors, px : PointMatrices, l : LVals]

(***************************************************************************)
(* compute_one, step by step                                               *)
(***************************************************************************)
\* Slip: the regularisation term lambda * sigma2 * I is left out.
Operator_NoRegularisation(p1, g, lam, s2, mv) == DiagMul(p1, g)

\* dp * m_g + m_lambda * sigma2 * Matrix::Identity(moving.rows(), moving.rows())
Operator(p1, g, lam, s2, mv) ==
    MAdd(DiagMul(p1, g), MScale(RMul(lam, s2), Identity(Rows(mv))))

\* Slip: moving is subtracted without its masses dp.
Rhs_Unweighted(p, mv) == MSub(p.px, mv)

\* probabilities.px - dp * moving
Rhs(p, mv) == MSub(p.px, DiagMul(p.p1, mv))

\* result.points = moving + m_g * w
Points(g, mv, ww) == MAdd(mv, MMul(g, ww))

\* Slip: the division is guarded, degenerate statistics give 0.
Sigma2Arg_Guarded(fx, pts, p) ==
    IF VSum(p.p1) = <<0, 1>> THEN <<0, 1>>
    ELSE RDiv(RSub(RAdd(WeightedSquareSum(fx, p.pt1), WeightedSquareSum(pts, p.p1)),
                   RMul(<<2, 1>>, Trace(MMul(Transpose(p.px), pts)))),
              RMul(VSum(p.p1), <<Cols(fx), 1>>))

\* The argument of std::abs in result.sigma2.
Sigma2Arg(fx, pts, p) ==
    RDiv(RSub(RAdd(WeightedSquareSum(fx, p.pt1), WeightedSquareSum(pts, p.p1)),
              RMul(<<2, 1>>, Trace(MMul(Transpose(p.px), pts)))),
         RMul(VSum(p.p1), <<Cols(fx), 1>>))

\* Slip: the absolute value is not taken.
Sigma2New_NoAbs(fx, pts, p) == Sigma2Arg(fx, pts, p)

Sigma2New(fx, pts, p) == RAbs(Sigma2Arg(fx, pts, p))

\* Slip: the solved w is stored in the transform (compute_one not const).
ComputeOne_StoresW(t, fx, mv, p, s2) ==
    LET ww  == Solve(Operator(p.p1, t.g, t.lambda, s2, mv), Rhs(p, mv))
        pts == Points(t.g, mv, ww)
    IN  [w |-> ww, m_w |-> ww, points |-> pts, sigma2 |-> Sigma2New(fx, pts, p)]

\* Slip: the solved w is added to the stored W before the points are moved.
ComputeOne_WarmStart(t, fx, mv, p, s2) ==
    LET ww  == MAdd(t.w, Solve(Operator(p.p1, t.g, t.lambda, s2, mv), Rhs(p, mv)))
        pts == Points(t.g, mv, ww)
    IN  [w |-> ww, m_w |-> t.w, points |-> pts, sigma2 |-> Sigma2New(fx, pts, p)]

\* What compute_one computes on the transform t: its local w and its result.
ComputeOne(t, fx, mv, p, s2) ==
    LET ww  == Solve(Operator(p.p1, t.g, t.lambda, s2, mv), Rhs(p, mv))
        pts == Points(t.g, mv, ww)
    IN  [w |-> ww, m_w |-> t.w, points |-> pts, sigma2 |-> Sigma2New(fx, pts, p)]

(***************************************************************************)
(* Operations                                                              *)
(***************************************************************************)
\* Nonrigid(): the matrices are default-constructed, hence empty.  The caller
\* holds some point sets, statistics and variance; DEFAULT_LINKED is defined
\* in cpd/transform.hpp.
Init ==
    /\ m_g = <<>>
    /\ m_w = <<>>
    /\ m_lambda = <<DEFAULT_LAMBDA, 1>>
    /\ m_beta = <<DEFAULT_BETA, 1>>
    /\ m_linked \in BOOLEAN
    /\ fixed \in FixedMatrices
    /\ moving \in PointMatrices
    /\ probabilities \in ProbabilitiesVals
    /\ sigma2 \in Sigma2Vals
    /\ called = "none"
    /\ w = <<>>
    /\ result = NoResult

\* Slip: the kernel is taken of fixed.
init_FromFixed(fx, mv) ==
    /\ m_g' = affinity(fx, fx, m_beta)
    /\ m_w' = Zero(Rows(mv), Cols(mv))
    /\ called' = "init"
    /\ w' = <<>>
    /\ result' = NoResult
    /\ UNCHANGED <<m_lambda, m_beta, m_linked, caller>>

\* void init(const Matrix& fixed, const Matrix& moving)
init(fx, mv) ==
    /\ m_g' = affinity(mv, mv, m_beta)
    /\ m_w' = Zero(Rows(mv), Cols(mv))
    /\ called' = "init"
    /\ w' = <<>>
    /\ result' = NoResult
    /\ UNCHANGED <<m_lambda, m_beta, m_linked, caller>>

InitCall == init(fixed, moving)

\* Slip: = instead of +=.
ModifiedL_Overwrite(t, l) ==
    RMul(RDiv(t.lambda, <<2, 1>>), Trace(MMul(MMul(Transpose(t.w), t.g), t.w)))

\* probabilities.l += m_lambda / 2.0 * (m_w.transpose() * m_g * m_w).trace()
ModifiedL(t, l) ==
    RAdd(l, RMul(RDiv(t.lambda, <<2, 1>>), Trace(MMul(MMul(Transpose(t.w), t.g), t.w))))

\* void modify_probabilities(Probabilities& probabilities) const
modify_probabilities ==
    /\ probabilities' = [probabilities EXCEPT !.l = ModifiedL(Transform, @)]
    /\ called' = "modify_probabilities"
    /\ w' = <<>>
    /\ result' = NoResult
    /\ UNCHANGED <<m_g, m_w, m_lambda, m_beta, m_linked, fixed, moving, sigma2>>

\* Nonrigid& beta(double beta)
beta(b) ==
    /\ m_beta' = b
    /\ called' = "none"
    /\ w' = <<>>
    /\ result' = NoResult
    /\ UNCHANGED <<m_g, m_w, m_lambda, m_linked, caller>>

SetBeta == \E b \in BetaVals : beta(b)

\* Nonrigid& lambda(double lambda)
lambda(l) ==
    /\ m_lambda' = l
    /\ called' = "none"
    /\ w' = <<>>
    /\ result' = NoResult
    /\ UNCHANGED <<m_g, m_w, m_beta, m_linked, caller>>

SetLambda == \E l \in LambdaVals : lambda(l)

\* Nonrigid& linked(bool linked)
linked(b) ==
    /\ m_linked' = b
    /\ called' = "none"
    /\ w' = <<>>
    /\ result' = NoResult
    /\ UNCHANGED <<m_g, m_w, m_lambda, m_beta, caller>>

SetLinked == \E b \in BOOLEAN : linked(b)

\* The operator compute_one solves with is square of moving's size and
\* nonsingular; what the QR solves return for a singular operator is not modelled.
Solvable ==
    /\ Rows(m_g) = Rows(moving)
    /\ Det(Operator(probabilities.p1, m_g, m_lambda, sigma2, moving)) # <<0, 1>>

\* Slip: the affinity matrix is recomputed from the current moving matrix.
compute_one_RefreshesG ==
    /\ Solvable
    /\ called' = "compute_one"
    /\ LET r == ComputeOne(Transform, fixed, moving, probabilities, sigma2)
       IN  /\ w' = r.w
           /\ m_w' = r.m_w
           /\ result' = [points |-> r.points, sigma2 |-> r.sigma2]
    /\ m_g' = affinity(moving, moving, m_beta)
    /\ UNCHANGED <<m_lambda, m_beta, m_linked, caller>>

\* NonrigidResult compute_one(fixed, moving, probabilities, sigma2) const
compute_one ==
    /\ Solvable
    /\ called' = "compute_one"
    /\ LET r == ComputeOne(Transform, fixed, moving, probabilities, sigma2)
       IN  /\ w' = r.w
           /\ m_w' = r.m_w
           /\ result' = [points |-> r.points, sigma2 |-> r.sigma2]
    /\ UNCHANGED <<m_g, m_lambda, m_beta, m_linked, caller>>

\* The expectation step renews the correspondence statistics, a field at a time.
EStep ==
    /\ \/ \E v \in MassVectors : probabilities' = [probabilities EXCEPT !.p1 = v]
       \/ \E v \in FixedMassVectors : probabilities' = [probabilities EXCEPT !.pt1 = v]
       \/ \E v \in PointMatrices : probabilities' = [probabilities EXCEPT !.px = v]
       \/ \E v \in LVals : probabilities' = [probabilities EXCEPT !.l = v]
    /\ called' = "none"
    /\ w' = <<>>
    /\ result' = NoResult
    /\ UNCHANGED <<m_g, m_w, m_lambda, m_beta, m_linked, fixed, moving, sigma2>>

\* The scheduler passes on to another moving matrix or another variance.
Schedule ==
    /\ \/ moving' \in PointMatrices /\ UNCHANGED sigma2
       \/ sigma2' \in Sigma2Vals /\ UNCHANGED moving
    /\ called' = "none"
    /\ w' = <<>>
    /\ result' = NoResult
    /\ UNCHANGED <<m_g, m_w, m_lambda, m_beta, m_linked, fixed, probabilities>>

Next ==
    \/ InitCall
    \/ modify_probabilities
    \/ SetBeta
    \/ SetLambda
    \/ SetLinked
    \/ compute_one
    \/ EStep
    \/ Schedule

Spec == Init /\ [][Next]_vars

(***************************************************************************)
(* Properties                                                              *)
(***************************************************************************)
HasResult == called = "compute_one"

Initialised == m_g # <<>>

\* (lambda / 2) * sum over k, i, j of W[i][k] * G[i][j] * W[j][k]
Energy(g, ww, lam) ==
    RMul(RDiv(lam, <<2, 1>>),
         RSum([k \in 1..Cols(ww) |->
                 RSum([i \in 1..Rows(ww) |->
                         RSum([j \in 1..Rows(ww) |->
                                 RMul(RMul(ww[i][k], g[i][j]), ww[j][k])],
                              Rows(ww))],
                      Rows(ww))],
              Cols(ww)))

\* The w at hand solves (dP G + lambda sigma2 I) w = px - dP moving.
SolvesSystem(ww) ==
    MMul(Operator(probabilities.p1, m_g, m_lambda, sigma2, moving), ww)
        = Rhs(probabilities, moving)

\* C1: after compute_one the weight matrix stored in the transform is the w
\* compute_one solved from (dP G + lambda sigma2 I) w = px - dP moving, and the
\* returned points are moving + G * (stored W).
C1_StoredWIsSolvedW ==
    HasResult =>
        /\ SolvesSystem(w)
        /\ m_w = w
        /\ result.points = MAdd(moving, MMul(m_g, m_w))

\* C2: modify_probabilities adds (lambda / 2) trace(W^T G W), of the transform's
\* current G, W and lambda, to l, and changes nothing else of the statistics or
\* of the transform; the amount added is that energy for any stored W.
C2_ModifyAddsEnergy ==
    [][called' = "modify_probabilities" =>
          /\ probabilities'.l = RAdd(probabilities.l, Energy(m_g, m_w, m_lambda))
          /\ probabilities'.p1 = probabilities.p1
          /\ probabilities'.pt1 = probabilities.pt1
          /\ probabilities'.px = probabilities.px
          /\ UNCHANGED <<m_g, m_w, m_lambda, m_beta, m_linked>>
          /\ Initialised =>
                \A w2 \in PointMatrices :
                    ModifiedL([Transform EXCEPT !.w = w2], probabilities.l)
                        = RAdd(probabilities.l, Energy(m_g, w2, m_lambda))]_vars

\* modify_probabilities has acted on statistics with l # 0, under an initialised
\* transform with lambda # 0 and an affinity matrix other than all ones.
C2_Witness ==
    /\ called = "modify_probabilities"
    /\ Initialised
    /\ probabilities.l # <<0, 1>>
    /\ m_lambda # <<0, 1>>
    /\ m_g[1][N] # <<1, 1>>

\* C3: only init changes G: compute_one, modify_probabilities, the setters and
\* the caller's changes of moving and of the statistics leave it as init set it.
C3_OnlyInitChangesG == [][m_g' # m_g => called' = "init"]_vars

\* compute_one has run on a G that init took from another moving matrix and
\* under another beta than the current ones.
C3_Witness ==
    /\ HasResult
    /\ m_g # affinity(moving, moving, m_beta)
    /\ \E mv \in PointMatrices, b \in BetaVals :
          mv # moving /\ b # m_beta /\ m_g = affinity(mv, mv, b)

\* C4: init sets G[i][j] to the kernel of moving[i] and moving[j] under the
\* configured beta and W to zeros of moving's shape, whatever G and W were and
\* whatever fixed is, and leaves lambda, beta and linked alone.
C4_InitResets ==
    [][called' = "init" =>
          /\ Rows(m_g') = Rows(moving) /\ Cols(m_g') = Rows(moving)
          /\ \A i, j \in 1..Rows(moving) :
                \* G[i][j] * (1 + d2 / (2 beta^2)) = 1
                RMul(m_g'[i][j],
                     RAdd(<<1, 1>>,
                          RDiv(SqDist(moving[i], moving[j]),
                               RMul(<<2, 1>>, RMul(m_beta, m_beta))))) = <<1, 1>>
          /\ Rows(m_w') = Rows(moving) /\ Cols(m_w') = Cols(moving)
          /\ \A i \in 1..Rows(moving), k \in 1..Cols(moving) : m_w'[i][k] = <<0, 1>>
          /\ UNCHANGED <<m_lambda, m_beta, m_linked>>]_vars

\* init has acted with a moving matrix other than fixed, under a beta set by
\* beta(); G is not the all-ones matrix.
C4_Witness ==
    /\ called = "init"
    /\ moving # fixed
    /\ m_beta # <<DEFAULT_BETA, 1>>
    /\ m_g[1][N] # <<1, 1>>

\* C10: the stored W is what init made it (all zero; empty before init), also
\* after compute_one solved a nonzero w, so modify_probabilities adds 0 to l.
C10_StoredWStaysZero ==
    /\ m_w = (IF Initialised THEN Zero(Rows(m_g), 1) ELSE <<>>)
    /\ Energy(m_g, m_w, m_lambda) = <<0, 1>>
    /\ ModifiedL(Transform, probabilities.l) = probabilities.l

\* compute_one has solved a nonzero w under lambda # 0; the stored W is zero.
C10_Witness ==
    /\ HasResult
    /\ w # Zero(N, 1)
    /\ m_w = Zero(N, 1)
    /\ m_lambda # <<0, 1>>

\* sum over i, k of A[i][k] * B[i][k] * v[i]
WeightedDot(A, B, v) ==
    RSum([i \in 1..Rows(A) |->
            RSum([k \in 1..Cols(A) |-> RMul(RMul(A[i][k], B[i][k]), v[i])], Cols(A))],
         Rows(A))

Ones(n) == [i \in 1..n |-> <<1, 1>>]

\* (sum fixed^2 pt1 + sum points^2 p1 - 2 trace(px^T points)) / (np D), entry by
\* entry, for the points of the result at hand.
Residual ==
    RDiv(RSub(RAdd(WeightedDot(fixed, fixed, probabilities.pt1),
                   WeightedDot(result.points, result.points, probabilities.p1)),
              RMul(<<2, 1>>,
                   WeightedDot(probabilities.px, result.points, Ones(Rows(moving))))),
         RMul(VSum(probabilities.p1), <<Cols(fixed), 1>>))

ZeroDisplacementCase == probabilities.px = DiagMul(probabilities.p1, moving)

IdenticalSetsCase == fixed = moving /\ probabilities.pt1 = probabilities.p1

\* C6 as claimed: with px = dP moving (and a nonsingular operator) compute_one
\* solves W = 0 and returns points = moving; if also fixed = moving and
\* pt1 = p1, it returns sigma2 = 0.
C6_ZeroDisplacementAsClaimed ==
    (HasResult /\ ZeroDisplacementCase) =>
        /\ w = Zero(Rows(moving), Cols(moving))
        /\ result.points = moving
        /\ IdenticalSetsCase => result.sigma2 = <<0, 1>>

\* C6, amended: the same, with sigma2 = 0 claimed only for sum p1 # 0.
C6_ZeroDisplacement ==
    (HasResult /\ ZeroDisplacementCase) =>
        /\ w = Zero(Rows(moving), Cols(moving))
        /\ result.points = moving
        /\ (IdenticalSetsCase /\ VSum(probabilities.p1) # <<0, 1>>)
              => result.sigma2 = <<0, 1>>

\* compute_one has returned for identical point sets away from the origin with
\* unit masses and px = moving, on an affinity matrix other than all ones.
C6_Witness ==
    /\ HasResult
    /\ ZeroDisplacementCase
    /\ IdenticalSetsCase
    /\ probabilities.p1 = Ones(N)
    /\ moving[1][1] # <<0, 1>>
    /\ m_g[1][N] # <<1, 1>>
    /\ result.sigma2 = <<0, 1>>

\* C7: with sum p1 = 0 compute_one still returns: points = moving + G w for the
\* w it solved, a sigma2 that is not finite, and the transform as it was.
C7_DegenerateNotRejected ==
    [][(called' = "compute_one" /\ VSum(probabilities.p1) = <<0, 1>>) =>
          /\ ~Finite(result'.sigma2)
          /\ result'.points = MAdd(moving, MMul(m_g, w'))
          /\ UNCHANGED <<m_g, m_w, m_lambda, m_beta, m_linked>>]_vars

\* compute_one has returned an infinite sigma2 for sum p1 = 0.
C7_Witness ==
    /\ HasResult
    /\ VSum(probabilities.p1) = <<0, 1>>
    /\ result.sigma2 = <<1, 0>>
    /\ result.points # moving

Symmetric(A) == \A i, j \in 1..Rows(A) : A[i][j] = A[j][i]

\* Sylvester's criterion: a symmetric matrix all of whose leading principal
\* minors are positive.
PositiveDefinite(A) ==
    /\ Symmetric(A)
    /\ \A k \in 1..Rows(A) : RPos(Det(Mat(k, k, LAMBDA i, j : A[i][j])))

Uniform(v) == \A i, j \in 1..Len(v) : v[i] = v[j]

\* The operator compute_one builds from the caller's current arguments.
CurrentOperator == Operator(probabilities.p1, m_g, m_lambda, sigma2, moving)

\* C8 as claimed: for every p1 the operator dP G + lambda sigma2 I is symmetric,
\* and positive definite when lambda sigma2 > 0.
C8_OperatorSymmetricAsClaimed ==
    Initialised =>
        /\ Symmetric(CurrentOperator)
        /\ RPos(RMul(m_lambda, sigma2)) => PositiveDefinite(CurrentOperator)

\* C8, amended: for p1 with all entries equal (and >= 0) the operator is
\* symmetric, and positive definite when lambda sigma2 > 0.
C8_OperatorSymmetricForUniformP1 ==
    (Initialised /\ Uniform(probabilities.p1)) =>
        /\ Symmetric(CurrentOperator)
        /\ RPos(RMul(m_lambda, sigma2)) => PositiveDefinite(CurrentOperator)

\* compute_one has solved with the operator for uniform nonzero p1,
\* lambda sigma2 > 0 and an affinity matrix other than all ones.
C8_Witness ==
    /\ HasResult
    /\ probabilities.p1 = Ones(N)
    /\ RPos(RMul(m_lambda, sigma2))
    /\ m_g[1][N] # <<1, 1>>

\* A transform with the G and lambda of the current one, and another stored W,
\* another beta and the other linked flag.
OtherTransform ==
    [g |-> m_g,
     w |-> [i \in 1..Rows(moving) |-> [k \in 1..Cols(moving) |-> <<1, 1>>]],
     lambda |-> m_lambda,
     beta |-> CHOOSE b \in BetaVals : b # m_beta,
     linked |-> ~m_linked]

\* C9: the result depends on the transform through G and lambda only: on a
\* transform that differs in the stored W, in beta and in linked, compute_one
\* returns the same points and sigma2; and the w solved is the solution for
\* the lambda currently set.
C9_DependsOnGAndLambdaOnly ==
    HasResult =>
        /\ LET r == ComputeOne(OtherTransform, fixed, moving, probabilities, sigma2)
           IN  r.points = result.points /\ r.sigma2 = result.sigma2
        /\ SolvesSystem(w)
        /\ result.points = MAdd(moving, MMul(m_g, w))

\* compute_one has solved a nonzero w under a lambda set by lambda(), on a G
\* that init did not compute under the current beta.
C9_Witness ==
    /\ HasResult
    /\ m_lambda # <<DEFAULT_LAMBDA, 1>>
    /\ w # Zero(N, 1)
    /\ \A mv \in PointMatrices : m_g # affinity(mv, mv, m_beta)

====
